---- MODULE Spec2Model ----
(***************************************************************************)
(* Model of the public API of lciafmt (src/lciafmt/__init__.py):           *)
(* the Method enumeration and its metadata lookup, get_method,             *)
(* get_mapped_method with its method cache, clear_cache, map_flows and     *)
(* supported_indicators.                                                   *)
(*                                                                         *)
(* A DataFrame is a sequence of factor rows; a row is a record of the      *)
(* columns Method, Indicator, Flowable, Context, Unit and Factor (the      *)
(* optional columns Indicator unit, CAS Number and Location take no part   *)
(* in any branch of the code and are left out).  Python's None and an      *)
(* optional value are the records None and Some(v).                        *)
(***************************************************************************)
EXTENDS Integers, Sequences, FiniteSets, TLC

VARIABLES
    metadata,      \* which content data/methods.json has, fixed for a run
    mapping,       \* the version of the external flow-mapping tables
    cache,         \* the stored method artifacts: Method -> None | Some(table)
    genVersion,    \* per method: the mapping version its artifact was generated from (0: no artifact)
    generations,   \* per method: get_method calls made by get_mapped_method since the last clear
    served,        \* per method: a get_mapped_method call completed since the last clear
    lastCall,      \* the last API call: its name, arguments and the branches it took
    result,        \* what the last API call returned
    log,           \* the error log entries of the last API call
    procs          \* the two racing processes of the concurrent specification

vars == <<metadata, mapping, cache, genVersion, generations, served, lastCall, result, log, procs>>

(* Python's None where a table, a list or a string is expected. *)
None == [some |-> FALSE, val |-> << >>]

NoList == [some |-> FALSE, val |-> {}]

NoStr == [some |-> FALSE, val |-> ""]

Some(v) == [some |-> TRUE, val |-> v]

(***************************************************************************)
(* Bounds of the model.                                                    *)
(***************************************************************************)
MaxGen == 2
MaxMappingVersion == 2

(***************************************************************************)
(* class Method(Enum): the members in declaration order.                   *)
(***************************************************************************)
Members == <<"TRACI", "RECIPE_2016", "FEDEFL_INV", "ImpactWorld">>

Method == {Members[i] : i \in 1..Len(Members)}

MethodValue(n) ==
    CASE n = "TRACI" -> "TRACI 2.1"
      [] n = "RECIPE_2016" -> "ReCiPe 2016"
      [] n = "FEDEFL_INV" -> "FEDEFL Inventory"
      [] n = "ImpactWorld" -> "ImpactWorld"

(***************************************************************************)
(* data/methods.json.  Two contents are considered: the shipped one, and   *)
(* one in which keys of different methods collide and the                  *)
(* case_insensitivity strings differ.                                      *)
(***************************************************************************)
MethodsJsonShipped ==
    << [id |-> "TRACI", name |-> "TRACI 2.1", path |-> "traci",
        mapping |-> "TRACI2.1", case_insensitivity |-> "False"],
       [id |-> "RECIPE_2016", name |-> "ReCiPe 2016", path |-> "recipe",
        mapping |-> "ReCiPe2016", case_insensitivity |-> "True",
        methods |-> {"ReCiPe/H", "ReCiPe/I"}],
       [id |-> "FEDEFL_INV", name |-> "FEDEFL Inventory", path |-> "fedefl",
        methods |-> {"energy", "metals"}],
       [id |-> "ImpactWorld", name |-> "ImpactWorld", path |-> "iw",
        mapping |-> "IW", case_insensitivity |-> "False"] >>

MethodsJsonColliding ==
    << [id |-> "TRACI", name |-> "TRACI 2.1", path |-> "traci",
        mapping |-> "TRACI2.1", case_insensitivity |-> "True"],
       [id |-> "RECIPE_2016", name |-> "ReCiPe 2016", path |-> "recipe",
        mapping |-> "ReCiPe2016", case_insensitivity |-> "true",
        methods |-> {"ReCiPe/H", "TRACI2.1"}],
       [id |-> "FEDEFL_INV", name |-> "FEDEFL Inventory", path |-> "fedefl",
        methods |-> {"energy", "ImpactWorld"}],
       [id |-> "ImpactWorld", name |-> "ImpactWorld", path |-> "iw",
        mapping |-> "ReCiPe2016", case_insensitivity |-> "False"] >>

MethodsJsonFiles == {"shipped", "colliding"}

supported_methods ==
    IF metadata = "shipped" THEN MethodsJsonShipped ELSE MethodsJsonColliding

(***************************************************************************)
(* Method.get_metadata: the first record whose id is the member's name,    *)
(* with the case_insensitivity string turned into a boolean: the string    *)
(* 'True' is True, every other value is False.                             *)
(***************************************************************************)
CaseFlag(m) ==
    IF "case_insensitivity" \in DOMAIN m
    THEN [m EXCEPT !.case_insensitivity = (m.case_insensitivity = "True")]
    ELSE m

get_metadata(cls) ==
    LET md == supported_methods
        i == CHOOSE k \in 1..Len(md) :
                 /\ md[k].id = cls
                 /\ \A j \in 1..(k - 1) : md[j].id # cls
    IN CaseFlag(md[i])

HasMapping(cls) == "mapping" \in DOMAIN get_metadata(cls)

(***************************************************************************)
(* Method.get_class: the members are tried in declaration order and the   *)
(* first whose name, value, mapping system or sub-method key is the       *)
(* string is returned; None (after an error log entry) when there is none. *)
(***************************************************************************)
MethodsOf(m) == IF "methods" \in DOMAIN m THEN m.methods ELSE {}

Matches(n, name) ==
    LET m == get_metadata(n)
    IN \/ n = name
       \/ MethodValue(n) = name
       \/ ("mapping" \in DOMAIN m /\ m.mapping = name)
       \/ name \in MethodsOf(m)

(* A lookup that lets the last matching member win. *)
get_class_last_match(name) ==
    LET hits == {i \in 1..Len(Members) : Matches(Members[i], name)}
    IN IF hits = {} THEN NoStr
       ELSE Some(Members[CHOOSE i \in hits : \A j \in hits : i >= j])

get_class(name) ==
    LET hits == {i \in 1..Len(Members) : Matches(Members[i], name)}
    IN IF hits = {} THEN NoStr
       ELSE Some(Members[CHOOSE i \in hits : \A j \in hits : i <= j])

get_class_log(name) ==
    IF get_class(name).some THEN <<>> ELSE <<"Method not found">>

(***************************************************************************)
(* Factor rows and tables.                                                 *)
(***************************************************************************)
Row(meth, ind, flow, ctx, unit, f) ==
    [Method |-> meth, Indicator |-> ind, Flowable |-> flow,
     Context |-> ctx, Unit |-> unit, Factor |-> f]

(* str.lower() on the flow names that occur. *)
Lower(s) ==
    CASE s = "CO2" -> "co2"
      [] s = "NOx" -> "nox"
      [] s = "H2O" -> "h2o"
      [] s = "Hg" -> "hg"
      [] s = "Carbon dioxide" -> "carbon dioxide"
      [] s = "Coal" -> "coal"
      [] s = "NOX" -> "nox"
      [] s = "HG" -> "hg"
      [] s = "WATER" -> "water"
      [] s = "CARBON DIOXIDE" -> "carbon dioxide"
      [] OTHER -> s

(***************************************************************************)
(* The tables the format-specific getters return (traci.get, recipe.get,   *)
(* fedefl_inventory.get, iw.get).  They hold synonymous flows, flows that  *)
(* differ in letter case only, one flow given in two units, and rows that  *)
(* share their whole key.                                                  *)
(***************************************************************************)
GetterTable(cls) ==
    CASE cls = "TRACI" ->
           << Row("TRACI 2.1", "GWP", "CO2", "air", "kg", 1),
              Row("TRACI 2.1", "GWP", "Carbon dioxide", "air", "kg", 2),
              Row("TRACI 2.1", "Acid", "NOx", "air", "kg", 4),
              Row("TRACI 2.1", "GWP", "co2", "air", "kg", 5) >>
      [] cls = "RECIPE_2016" ->
           << Row("ReCiPe/H", "GWP", "CO2", "air", "kg", 1),
              Row("ReCiPe/H", "GWP", "co2", "air", "kg", 2),
              Row("ReCiPe/I", "GWP", "CO2", "air", "kg", 3),
              Row("ReCiPe/I", "Water", "H2O", "water", "m3", 2),
              Row("ReCiPe/I", "Water", "water", "water", "kg", 1) >>
      [] cls = "FEDEFL_INV" ->
           << Row("FEDEFL Inventory", "energy", "Coal", "resource", "MJ", 1),
              Row("FEDEFL Inventory", "energy", "Coal", "resource", "MJ", 2),
              Row("FEDEFL Inventory", "metals", "Hg", "resource", "kg", 1) >>
      [] cls = "ImpactWorld" ->
           << Row("ImpactWorld", "GWP", "CO2", "air", "kg", 1),
              Row("ImpactWorld", "Tox", "Hg", "water", "kg", 3),
              Row("ImpactWorld", "Tox", "Hg", "air", "kg", 1) >>

(***************************************************************************)
(* get_method: the if-chain on the method identifier.  Each branch calls   *)
(* one getter and returns; the record is the call the getter receives.     *)
(* TRACI's branch passes url=None whatever the caller gave.                *)
(***************************************************************************)
TraciUrl(url) == NoStr

GetterCalls(method_id, file, url, subset) ==
    IF method_id = "TRACI"
    THEN << [getter |-> "traci.get", args |-> [file |-> file, url |-> TraciUrl(url)]] >>
    ELSE IF method_id = "RECIPE_2016"
    THEN << [getter |-> "recipe.get", args |-> [file |-> file, url |-> url]] >>
    ELSE IF method_id = "ImpactWorld"
    THEN << [getter |-> "iw.get", args |-> [file |-> file, url |-> url]] >>
    ELSE IF method_id = "FEDEFL_INV"
    THEN << [getter |-> "fedefl_inventory.get", args |-> [subset |-> subset]] >>
    ELSE << >>

get_method(method_id, file, url, subset) ==
    IF GetterCalls(method_id, file, url, subset) = << >>
    THEN None
    ELSE Some(GetterTable(method_id))

(***************************************************************************)
(* The flow-mapping tables of the named mapping systems.  They are data    *)
(* supplied from outside and may be updated between calls; the version     *)
(* stands for the update: an updated table converts with other factors    *)
(* and maps a source flow to another canonical flow.                       *)
(***************************************************************************)
Entry(sf, sc, tf, tc, cf) ==
    [SourceFlowName |-> sf, SourceContext |-> sc, TargetFlowName |-> tf,
     TargetContext |-> tc, ConversionFactor |-> cf]

MappingTable(system, version) ==
    CASE system = "TRACI2.1" ->
           { Entry("CO2", "air", "Carbon dioxide", "air", 1),
             Entry("Carbon dioxide", "air", "Carbon dioxide", "air", 1),
             Entry("NOx", "air", "Nitrogen oxides", "air", version) }
      [] system = "ReCiPe2016" ->
           { Entry("CO2", "*", "Carbon dioxide", "air", version),
             Entry("H2O", "water", "Water", "water", 1),
             Entry("water", "water",
                   IF version = 1 THEN "Water, fresh" ELSE "Water", "water", 1),
             Entry("Hg", "*", "Mercury", "water", 2) }
      [] system = "IW" ->
           { Entry("CO2", "air", "Carbon dioxide", "air", version),
             Entry("Hg", "*", "Mercury", "water", 2),
             Entry("Hg", "air", "Mercury", "air", 3) }
      [] OTHER -> {}

(***************************************************************************)
(* fmap.Mapper: the loader lower-cases the source flow names of the        *)
(* mapping when case_insensitive is set; run() looks each row up by        *)
(* (Flowable, Context), a context-specific entry before a "*" entry,       *)
(* replaces Flowable and Context, multiplies Factor, and drops (or, with   *)
(* preserve_unmapped, keeps unchanged) the rows without an entry.  Row     *)
(* order is kept.                                                          *)
(***************************************************************************)
LoadMapping(system, version, case_insensitive) ==
    IF case_insensitive
    THEN {[e EXCEPT !.SourceFlowName = Lower(e.SourceFlowName)] :
              e \in MappingTable(system, version)}
    ELSE MappingTable(system, version)

Lookup(rel, r) ==
    LET exact == {e \in rel : e.SourceFlowName = r.Flowable /\ e.SourceContext = r.Context}
        any == {e \in rel : e.SourceFlowName = r.Flowable /\ e.SourceContext = "*"}
    IN IF exact # {} THEN Some(CHOOSE e \in exact : TRUE)
       ELSE IF any # {} THEN Some(CHOOSE e \in any : TRUE)
       ELSE None

MapRow(r, e) ==
    [r EXCEPT !.Flowable = e.TargetFlowName, !.Context = e.TargetContext,
              !.Factor = r.Factor * e.ConversionFactor]

RECURSIVE MapperRun(_, _, _)
MapperRun(df, rel, preserve_unmapped) ==
    IF df = << >> THEN << >>
    ELSE LET r == Head(df)
             hit == Lookup(rel, r)
             rest == MapperRun(Tail(df), rel, preserve_unmapped)
         IN IF hit.some THEN <<MapRow(r, hit.val)>> \o rest
            ELSE IF preserve_unmapped THEN <<r>> \o rest
            ELSE rest

map_flows(df, system, version, preserve_unmapped, case_insensitive) ==
    MapperRun(df, LoadMapping(system, version, case_insensitive), preserve_unmapped)

(***************************************************************************)
(* util.collapse_indicators: rows are grouped by (Method, Indicator,       *)
(* Flowable, Context, Unit); a group becomes one row, at the place of its  *)
(* first row, whose Factor is the sum of the group's factors.              *)
(***************************************************************************)
GroupKey(r) == <<r.Method, r.Indicator, r.Flowable, r.Context, r.Unit>>

RECURSIVE SumFactors(_, _)
SumFactors(df, k) ==
    IF df = << >> THEN 0
    ELSE (IF GroupKey(Head(df)) = k THEN Head(df).Factor ELSE 0)
         + SumFactors(Tail(df), k)

RECURSIVE FirstOfGroups(_, _)
FirstOfGroups(df, seen) ==
    IF df = << >> THEN << >>
    ELSE IF GroupKey(Head(df)) \in seen THEN FirstOfGroups(Tail(df), seen)
    ELSE <<Head(df)>> \o FirstOfGroups(Tail(df), seen \cup {GroupKey(Head(df))})

collapse_indicators(df) ==
    LET firsts == FirstOfGroups(df, {})
    IN [i \in 1..Len(firsts) |->
           [firsts[i] EXCEPT !.Factor = SumFactors(df, GroupKey(firsts[i]))]]

(***************************************************************************)
(* util.store_method, util.read_method and cache.clear: the artifact of a  *)
(* method is written whole under a name derived from the identifier,       *)
(* read back as written (None when there is none), and every artifact is   *)
(* removed by a clear.                                                     *)
(***************************************************************************)
store_method(c, df, method_id) == [c EXCEPT ![method_id] = Some(df)]

read_method(c, method_id) == c[method_id]

cache_clear(c) == [m \in DOMAIN c |-> None]

(***************************************************************************)
(* The steps of get_mapped_method.                                         *)
(***************************************************************************)
(* A call that never looks at what read_method returned. *)
AlwaysGenerates(mapped_method) == TRUE

(* line 164: the method is generated when read_method returned None. *)
NeedsGeneration(mapped_method) == ~mapped_method.some

(* A call that forgets to lower-case the method's flow names. *)
KeepFlowable(method, case_insensitive) == method

(* lines 170-171: Flowable is lower-cased for a case-insensitive method. *)
LowerFlowable(method, case_insensitive) ==
    IF case_insensitive
    THEN [i \in 1..Len(method) |-> [method[i] EXCEPT !.Flowable = Lower(@)]]
    ELSE method

(* lines 168-173: the table handed to map_flows. *)
MapperInput(method, method_id) ==
    LowerFlowable(method, get_metadata(method_id).case_insensitivity)

(* A generation that forgets collapse_indicators. *)
MapWithoutCollapse(method, method_id, version) ==
    IF HasMapping(method_id)
    THEN LET md == get_metadata(method_id)
         IN map_flows(MapperInput(method, method_id), md.mapping, version,
                      FALSE, md.case_insensitivity)
    ELSE method

(* lines 167-177: the getter's table mapped and collapsed when the metadata
   names a mapping system, and as it is otherwise. *)
MapAndCollapse(method, method_id, version) ==
    IF HasMapping(method_id)
    THEN LET md == get_metadata(method_id)
         IN collapse_indicators(
                map_flows(MapperInput(method, method_id), md.mapping, version,
                          FALSE, md.case_insensitivity))
    ELSE method

(* lines 166-177: the generated method. *)
Generate(method_id, version) ==
    MapAndCollapse(get_method(method_id, NoStr, NoStr, NoList).val, method_id, version)

(* A call that never stores what it generated. *)
StoresNoArtifact(method_id) == FALSE

(* lines 167 and 175: store_method is called in the mapping branch only. *)
StoresArtifact(method_id) == HasMapping(method_id)

(* A store_method call placed after the filters. *)
TableAfterFilters(collapsed, filtered) == filtered

(* line 175: the table stored is the collapsed one; the filters of lines
   178-185 run after it. *)
TableToStore(collapsed, filtered) == collapsed

(* lines 178-179 and 182-183: the isin filters; a filter of None is skipped. *)
FilterIndicators(df, indicators) ==
    IF indicators.some
    THEN SelectSeq(df, LAMBDA r : r.Indicator \in indicators.val)
    ELSE df

FilterMethods(df, methods) ==
    IF methods.some
    THEN SelectSeq(df, LAMBDA r : r.Method \in methods.val)
    ELSE df

(* An emptiness test that is off by one. *)
FilterHasAtMostOneRow(df) == Len(df) <= 1

(* lines 180 and 184: the condition under which the error is logged. *)
FilterIsEmpty(df) == Len(df) = 0

FilterLog(df, indicators, methods) ==
    LET f1 == FilterIndicators(df, indicators)
        f2 == FilterMethods(f1, methods)
    IN (IF indicators.some /\ FilterIsEmpty(f1) THEN <<"indicator not found">> ELSE << >>)
       \o (IF methods.some /\ FilterIsEmpty(f2)
           THEN <<"specified method not found">> ELSE << >>)

(* lines 178-187: the table returned; reset_index renumbers the rows, which
   a sequence does by itself. *)
Returned(df, indicators, methods) ==
    FilterMethods(FilterIndicators(df, indicators), methods)

(***************************************************************************)
(* The arguments the calls are made with.                                  *)
(***************************************************************************)
IndicatorArgs == {NoList, Some({"GWP"}), Some({"Water", "Acid"})}

MethodArgs == {NoList, Some({"ReCiPe/H", "TRACI 2.1"})}

PathArgs == {NoStr, Some("alt")}

SubsetArgs == {NoList, Some({"energy"})}

NameArgs ==
    {"TRACI", "RECIPE_2016", "FEDEFL_INV", "ImpactWorld",
     "TRACI 2.1", "ReCiPe 2016", "FEDEFL Inventory",
     "TRACI2.1", "ReCiPe2016", "IW",
     "ReCiPe/H", "ReCiPe/I", "energy", "metals", "no such method"}

Procs == {"p1", "p2"}

Idle ==
    [pc |-> "idle", method_id |-> "TRACI", indicators |-> NoList, methods |-> NoList,
     mapped_method |-> None, ret |-> None, stored |-> FALSE]

(***************************************************************************)
(* The sequential specification: every API call runs to completion.        *)
(***************************************************************************)
Init ==
    /\ metadata \in MethodsJsonFiles
    /\ mapping = 1
    /\ cache = [m \in Method |-> None]
    /\ genVersion = [m \in Method |-> 0]
    /\ generations = [m \in Method |-> 0]
    /\ served = [m \in Method |-> FALSE]
    /\ lastCall = [op |-> "none"]
    /\ result = None
    /\ log = << >>
    /\ procs = [p \in Procs |-> Idle]

get_mapped_method(method_id, indicators, methods) ==
    LET mapped_method == read_method(cache, method_id)
        miss == NeedsGeneration(mapped_method)
        full == IF miss THEN Generate(method_id, mapping) ELSE mapped_method.val
        out == Returned(full, indicators, methods)
        stores == miss /\ StoresArtifact(method_id)
    IN /\ miss => generations[method_id] < MaxGen
       /\ cache' = IF stores
                   THEN store_method(cache, TableToStore(full, out), method_id)
                   ELSE cache
       /\ genVersion' = IF stores THEN [genVersion EXCEPT ![method_id] = mapping]
                        ELSE genVersion
       /\ generations' = IF miss THEN [generations EXCEPT ![method_id] = @ + 1]
                         ELSE generations
       /\ served' = [served EXCEPT ![method_id] = TRUE]
       /\ lastCall' = [op |-> "get_mapped_method", method_id |-> method_id,
                       indicators |-> indicators, methods |-> methods,
                       generated |-> miss, servedBefore |-> served[method_id],
                       version |-> mapping,
                       mapperInput |-> IF miss /\ HasMapping(method_id)
                                       THEN Some(MapperInput(GetterTable(method_id), method_id))
                                       ELSE None]
       /\ result' = Some(out)
       /\ log' = FilterLog(full, indicators, methods)
       /\ UNCHANGED <<metadata, mapping, procs>>

(* A clear_cache that leaves the artifacts in place. *)
clear_cache_keeps_artifacts ==
    /\ cache' = cache
    /\ genVersion' = genVersion
    /\ generations' = generations
    /\ served' = served
    /\ lastCall' = [op |-> "clear_cache", cleared |-> {m \in Method : cache[m].some}]
    /\ result' = None
    /\ log' = << >>
    /\ UNCHANGED <<metadata, mapping, procs>>

clear_cache ==
    /\ cache' = cache_clear(cache)
    /\ genVersion' = [m \in Method |-> 0]
    /\ generations' = [m \in Method |-> 0]
    /\ served' = [m \in Method |-> FALSE]
    /\ lastCall' = [op |-> "clear_cache", cleared |-> {m \in Method : cache[m].some}]
    /\ result' = None
    /\ log' = << >>
    /\ UNCHANGED <<metadata, mapping, procs>>

supported_indicators(method_id) ==
    LET method == read_method(cache, method_id)
    IN /\ lastCall' = [op |-> "supported_indicators", method_id |-> method_id]
       /\ result' = IF method.some
                    THEN Some({method.val[i].Indicator : i \in 1..Len(method.val)})
                    ELSE NoList
       /\ log' = << >>
       /\ UNCHANGED <<metadata, mapping, cache, genVersion, generations, served, procs>>

GetMethod(method_id, file, url, subset) ==
    /\ lastCall' = [op |-> "get_method", method_id |-> method_id, file |-> file,
                    url |-> url, subset |-> subset,
                    getters |-> GetterCalls(method_id, file, url, subset)]
    /\ result' = get_method(method_id, file, url, subset)
    /\ log' = << >>
    /\ UNCHANGED <<metadata, mapping, cache, genVersion, generations, served, procs>>

MapFlows(method_id, system, preserve_unmapped, case_insensitive) ==
    /\ lastCall' = [op |-> "map_flows", method_id |-> method_id, system |-> system,
                    preserve_unmapped |-> preserve_unmapped,
                    case_insensitive |-> case_insensitive]
    /\ result' = Some(map_flows(GetterTable(method_id), system, mapping,
                                preserve_unmapped, case_insensitive))
    /\ log' = << >>
    /\ UNCHANGED <<metadata, mapping, cache, genVersion, generations, served, procs>>

GetClass(name) ==
    /\ lastCall' = [op |-> "get_class", name |-> name]
    /\ result' = get_class(name)
    /\ log' = get_class_log(name)
    /\ UNCHANGED <<metadata, mapping, cache, genVersion, generations, served, procs>>

(* The mapping tables are updated outside the program. *)
ChangeMapping ==
    /\ \E v \in 1..MaxMappingVersion : v # mapping /\ mapping' = v
    /\ lastCall' = [op |-> "change_mapping"]
    /\ result' = None
    /\ log' = << >>
    /\ UNCHANGED <<metadata, cache, genVersion, generations, served, procs>>

(* The calls made with their default arguments. *)
Next ==
    \/ \E m \in Method, i \in IndicatorArgs, ms \in MethodArgs : get_mapped_method(m, i, ms)
    \/ clear_cache
    \/ \E m \in Method : supported_indicators(m)
    \/ \E m \in Method : GetMethod(m, NoStr, NoStr, NoList)
    \/ \E m \in Method : MapFlows(m, get_metadata("TRACI").mapping, FALSE, FALSE)
    \/ ChangeMapping

Spec == Init /\ [][Next]_vars

(***************************************************************************)
(* The functions that do not touch the cache, over all their arguments.    *)
(***************************************************************************)
NextApi ==
    \/ \E m \in Method, f \in PathArgs, u \in PathArgs, s \in SubsetArgs : GetMethod(m, f, u, s)
    \/ \E m \in Method, sys \in {"TRACI2.1", "IW"}, pu \in BOOLEAN, ci \in BOOLEAN :
           MapFlows(m, sys, pu, ci)
    \/ \E n \in NameArgs : GetClass(n)

SpecApi == Init /\ [][NextApi]_vars

(***************************************************************************)
(* The concurrent specification: two processes call get_mapped_method for  *)
(* the same method on an empty cache.  A process reads the cache (line     *)
(* 163), generates the method in its own memory (lines 166-174), stores    *)
(* it (line 175) and filters and returns (lines 178-187); the steps of the *)
(* two processes interleave, and the store and the read of an artifact     *)
(* are each one step.                                                      *)
(***************************************************************************)
InitConc ==
    /\ metadata \in MethodsJsonFiles
    /\ mapping = 1
    /\ cache = [m \in Method |-> None]
    /\ genVersion = [m \in Method |-> 0]
    /\ generations = [m \in Method |-> 0]
    /\ served = [m \in Method |-> FALSE]
    /\ lastCall = [op |-> "none"]
    /\ result = None
    /\ log = << >>
    /\ \E m \in Method :
           procs \in [Procs -> {[pc |-> "read", method_id |-> m, indicators |-> i,
                                 methods |-> ms, mapped_method |-> None, ret |-> None,
                                 stored |-> FALSE] :
                                    i \in IndicatorArgs, ms \in MethodArgs}]

seqVars == <<metadata, mapping, genVersion, generations, served, lastCall, result, log>>

PRead(p) ==
    LET mapped_method == read_method(cache, procs[p].method_id)
    IN /\ procs[p].pc = "read"
       /\ procs' = [procs EXCEPT ![p].mapped_method = mapped_method,
                                 ![p].pc = IF NeedsGeneration(mapped_method)
                                           THEN "generate" ELSE "filter"]
       /\ UNCHANGED <<cache, seqVars>>

PGenerate(p) ==
    /\ procs[p].pc = "generate"
    /\ procs' = [procs EXCEPT ![p].mapped_method = Some(Generate(procs[p].method_id, mapping)),
                              ![p].pc = IF StoresArtifact(procs[p].method_id)
                                        THEN "store" ELSE "filter"]
    /\ UNCHANGED <<cache, seqVars>>

PStore(p) ==
    LET full == procs[p].mapped_method.val
        out == Returned(full, procs[p].indicators, procs[p].methods)
    IN /\ procs[p].pc = "store"
       /\ cache' = store_method(cache, TableToStore(full, out), procs[p].method_id)
       /\ procs' = [procs EXCEPT ![p].pc = "filter", ![p].stored = TRUE]
       /\ UNCHANGED seqVars

PFilter(p) ==
    /\ procs[p].pc = "filter"
    /\ procs' = [procs EXCEPT ![p].ret = Some(Returned(procs[p].mapped_method.val,
                                                       procs[p].indicators,
                                                       procs[p].methods)),
                              ![p].pc = "done"]
    /\ UNCHANGED <<cache, seqVars>>

NextConc ==
    \/ \E p \in Procs : PRead(p)
    \/ \E p \in Procs : PGenerate(p)
    \/ \E p \in Procs : PStore(p)
    \/ \E p \in Procs : PFilter(p)

SpecConc == InitConc /\ [][NextConc]_vars

(***************************************************************************)
(* Reference definitions the properties are stated with.                   *)
(***************************************************************************)
IsGmm == lastCall.op = "get_mapped_method"

(* The rows of df that pass both filters, in their order. *)
Selected(df, indicators, methods) ==
    SelectSeq(df, LAMBDA r : /\ (indicators.some => r.Indicator \in indicators.val)
                             /\ (methods.some => r.Method \in methods.val))

Key4(r) == <<r.Method, r.Indicator, r.Flowable, r.Context>>

Key5(r) == <<r.Method, r.Indicator, r.Flowable, r.Context, r.Unit>>

Unique4(df) == \A i, j \in 1..Len(df) : Key4(df[i]) = Key4(df[j]) => i = j

Unique5(df) == \A i, j \in 1..Len(df) : Key5(df[i]) = Key5(df[j]) => i = j

(* Another spelling of each flow name that differs in letter case only. *)
OtherCase(s) ==
    CASE s = "CO2" -> "co2"
      [] s = "co2" -> "CO2"
      [] s = "NOx" -> "NOX"
      [] s = "H2O" -> "h2o"
      [] s = "Hg" -> "HG"
      [] s = "water" -> "WATER"
      [] s = "Carbon dioxide" -> "CARBON DIOXIDE"
      [] OTHER -> s

Recased(df) == [i \in 1..Len(df) |-> [df[i] EXCEPT !.Flowable = OtherCase(@)]]

(* The keys of a member, read off methods.json and the enumeration. *)
KeysOf(n) ==
    LET md == supported_methods
        recs == {md[k] : k \in {k \in 1..Len(md) : md[k].id = n}}
    IN {n, MethodValue(n)}
       \cup UNION {IF "mapping" \in DOMAIN r THEN {r.mapping} ELSE {} : r \in recs}
       \cup UNION {IF "methods" \in DOMAIN r THEN r.methods ELSE {} : r \in recs}

Owners(name) == {i \in 1..Len(Members) : name \in KeysOf(Members[i])}

AllDone == \A p \in Procs : procs[p].pc = "done"

RaceMethod == procs[CHOOSE p \in Procs : TRUE].method_id

(***************************************************************************)
(* C1 as stated: for every method, with or without a mapping system,      *)
(* generation runs at most once between two clears, and a call for a       *)
(* method already served since the last clear does not generate again.     *)
(***************************************************************************)
C1_Original ==
    /\ \A m \in Method : generations[m] <= 1
    /\ (IsGmm /\ lastCall.servedBefore) => ~lastCall.generated

(***************************************************************************)
(* C1 amended: for every method whose metadata names a mapping system,     *)
(* generation runs at most once between two clears, and a call for such a  *)
(* method already served since the last clear is a cache hit.              *)
(***************************************************************************)
C1_MappedGeneratedOnce ==
    /\ \A m \in Method : HasMapping(m) => generations[m] <= 1
    /\ (IsGmm /\ lastCall.servedBefore /\ HasMapping(lastCall.method_id))
           => ~lastCall.generated

C1_Witness ==
    /\ IsGmm /\ lastCall.servedBefore /\ HasMapping(lastCall.method_id)
    /\ ~lastCall.generated
    /\ generations[lastCall.method_id] = 1

(***************************************************************************)
(* C2: the artifact in the cache is the full, unfiltered table generated   *)
(* for the method, and every get_mapped_method call, hit or miss, returns  *)
(* exactly the rows of that table that pass its filters.                   *)
(***************************************************************************)
C2_CacheTransparent ==
    /\ \A m \in Method :
           read_method(cache, m).some
               => read_method(cache, m).val = Generate(m, genVersion[m])
    /\ IsGmm => result = Some(Selected(Generate(lastCall.method_id,
                                                 IF lastCall.generated THEN lastCall.version
                                                 ELSE genVersion[lastCall.method_id]),
                                        lastCall.indicators, lastCall.methods))

C2_Witness ==
    /\ IsGmm /\ lastCall.generated /\ lastCall.indicators.some
    /\ cache[lastCall.method_id].some
    /\ Len(result.val) < Len(cache[lastCall.method_id].val)

(***************************************************************************)
(* C3: right after clear_cache no method has an artifact, whatever was     *)
(* stored before (nothing included); a supported_indicators call made then *)
(* returns None and a get_mapped_method call made then regenerates.        *)
(***************************************************************************)
C3_ClearRemovesAll ==
    [][ /\ lastCall'.op = "clear_cache"
            => \A m \in Method : ~read_method(cache', m).some
        /\ (lastCall.op = "clear_cache" /\ lastCall'.op = "supported_indicators")
            => ~result'.some
        /\ (lastCall.op = "clear_cache" /\ lastCall'.op = "get_mapped_method")
            => lastCall'.generated ]_vars

C3_Witness ==
    /\ lastCall.op = "clear_cache"
    /\ Cardinality(lastCall.cleared) >= 2
    /\ \A m \in Method : ~cache[m].some

(***************************************************************************)
(* C4: a step that is not clear_cache leaves every existing artifact as it *)
(* is, and a get_mapped_method call for a method that has an artifact      *)
(* returns the rows of that artifact, also after the mapping changed.      *)
(***************************************************************************)
C4_OnlyClearChangesArtifact ==
    [][ /\ \A m \in Method :
               (cache[m].some /\ lastCall'.op # "clear_cache") => cache'[m] = cache[m]
        /\ (lastCall'.op = "get_mapped_method" /\ cache[lastCall'.method_id].some)
               => result' = Some(Selected(cache[lastCall'.method_id].val,
                                          lastCall'.indicators, lastCall'.methods)) ]_vars

C4_Witness ==
    /\ IsGmm /\ ~lastCall.generated
    /\ cache[lastCall.method_id].some
    /\ genVersion[lastCall.method_id] # mapping
    /\ cache[lastCall.method_id].val # Generate(lastCall.method_id, mapping)

C6_EmptyFilterReported ==
    IsGmm =>
        LET full == Generate(lastCall.method_id,
                             IF lastCall.generated THEN lastCall.version
                             ELSE genVersion[lastCall.method_id])
            byInd == Selected(full, lastCall.indicators, NoList)
            sel == Selected(full, lastCall.indicators, lastCall.methods)
        IN /\ result.some /\ result.val = sel
           /\ (log # << >>) <=> (Len(sel) = 0 /\ (lastCall.indicators.some \/ lastCall.methods.some))
           /\ (\E k \in 1..Len(log) : log[k] = "indicator not found")
                  <=> (lastCall.indicators.some /\ Len(byInd) = 0)
           /\ (\E k \in 1..Len(log) : log[k] = "specified method not found")
                  <=> (lastCall.methods.some /\ Len(sel) = 0)

C6_Witness ==
    /\ IsGmm /\ lastCall.indicators.some /\ lastCall.methods.some
    /\ log = <<"specified method not found">>
    /\ result = Some(<< >>)
    /\ Len(Selected(cache[lastCall.method_id].val, lastCall.indicators, NoList)) > 0
    /\ Len(Selected(cache[lastCall.method_id].val, NoList, lastCall.methods)) > 0

(***************************************************************************)
(* C7: for a case-insensitive method the generated table is the same when  *)
(* the source's flow names are spelled in another letter case; for a       *)
(* case-sensitive method the mapper receives the flow names unchanged.     *)
(***************************************************************************)
C7_CaseNormalized ==
    (IsGmm /\ lastCall.generated /\ HasMapping(lastCall.method_id)) =>
        LET m == lastCall.method_id
        IN IF get_metadata(m).case_insensitivity
           THEN /\ cache[m].val = MapAndCollapse(Recased(GetterTable(m)), m, lastCall.version)
                /\ \A i \in 1..Len(lastCall.mapperInput.val) :
                       lastCall.mapperInput.val[i].Flowable
                           = Lower(GetterTable(m)[i].Flowable)
           ELSE lastCall.mapperInput = Some(GetterTable(m))

C7_Witness ==
    /\ IsGmm /\ lastCall.generated /\ HasMapping(lastCall.method_id)
    /\ get_metadata(lastCall.method_id).case_insensitivity
    /\ lastCall.mapperInput.val # GetterTable(lastCall.method_id)
    /\ Len(cache[lastCall.method_id].val) > 0

(***************************************************************************)
(* C8 as stated: when both racing processes are done, the cache holds the  *)
(* complete generated table of the method and each process has returned    *)
(* the rows of it that pass its filters.                                   *)
(***************************************************************************)
C8_Original ==
    AllDone =>
        /\ cache[RaceMethod].some
        /\ cache[RaceMethod].val = Generate(RaceMethod, mapping)
        /\ \A p \in Procs :
               procs[p].ret = Some(Selected(Generate(RaceMethod, mapping),
                                            procs[p].indicators, procs[p].methods))

(***************************************************************************)
(* C8 amended: when both racing processes are done, each has returned the  *)
(* rows of the generated table that pass its filters (so equal filters     *)
(* give equal tables), and, for a method whose metadata names a mapping    *)
(* system, the cache holds the complete generated table; for a method      *)
(* without one the cache holds no artifact.                                *)
(***************************************************************************)
C8_RaceConverges ==
    AllDone =>
        /\ \A p \in Procs :
               procs[p].ret = Some(Selected(Generate(RaceMethod, mapping),
                                            procs[p].indicators, procs[p].methods))
        /\ \A p, q \in Procs :
               (procs[p].indicators = procs[q].indicators
                    /\ procs[p].methods = procs[q].methods)
                   => procs[p].ret = procs[q].ret
        /\ IF HasMapping(RaceMethod)
           THEN cache[RaceMethod] = Some(Generate(RaceMethod, mapping))
           ELSE ~cache[RaceMethod].some

C8_Witness ==
    /\ AllDone
    /\ HasMapping(RaceMethod)
    /\ \A p \in Procs : procs[p].stored /\ procs[p].indicators.some

(***************************************************************************)
(* C9: a get_method call for a method whose getter takes file and url      *)
(* invokes exactly one getter, and the getter receives the caller's file   *)
(* and the caller's url.                                                   *)
(***************************************************************************)
C9_ArgsPassedThrough ==
    (lastCall.op = "get_method" /\ lastCall.method_id \in {"TRACI", "RECIPE_2016", "ImpactWorld"})
        => /\ Len(lastCall.getters) = 1
           /\ lastCall.getters[1].args.file = lastCall.file
           /\ lastCall.getters[1].args.url = lastCall.url

(***************************************************************************)
(* C10: get_class returns the first member in declaration order that has   *)
(* the string among its keys (name, value, mapping system, sub-method      *)
(* keys) and logs nothing; for a string that is no member's key it         *)
(* returns None and logs 'Method not found'.                               *)
(***************************************************************************)
C10_GetClassResolves ==
    lastCall.op = "get_class" =>
        LET owners == Owners(lastCall.name)
        IN IF owners = {}
           THEN ~result.some /\ log = <<"Method not found">>
           ELSE /\ result = Some(Members[CHOOSE i \in owners : \A j \in owners : i <= j])
                /\ log = << >>

C10_Witness ==
    /\ lastCall.op = "get_class"
    /\ Cardinality(Owners(lastCall.name)) >= 2
    /\ result.some
    /\ result.val # lastCall.name

====
